---- MODULE Spec2Model ----
(***************************************************************************)
(* Model of src/src/App.tsx: a React component that pages through a remote *)
(* collection, keeps a selection set of record ids and selects "the next   *)
(* N rows" across pages by an effect that watches its own output.          *)
(*                                                                         *)
(* State.  The variables data .. isSelecting hold the component's state as *)
(* the updates queued so far leave it (updates are applied in the order of *)
(* the setter calls).  shown holds the values of the render on screen:     *)
(* the handlers bound to that render and the effects of that render read   *)
(* these values, not the queued ones.                                      *)
(*                                                                         *)
(* Granularity.  One step is one of: a call of an event handler of the     *)
(* render on screen; the continuation of one fetch; one run of the effects *)
(* of the render on screen (both effects of the component, in their order  *)
(* of declaration); one render, which puts the queued updates on screen.   *)
(* The effects of a render run before the next render.  An effect is due   *)
(* when one of its dependencies changed in the sense of Object.is: a       *)
(* number or boolean by value, a Set or array by identity, so every        *)
(* setSelected(new Set(..)) and every setData(json.data) makes the         *)
(* selection effect due at the next render.                                *)
(*                                                                         *)
(* Scheduling.  The updates an event handler queues are rendered before    *)
(* the next event is dispatched, and the effects of that render run before *)
(* the next event too: no handler and no continuation of a fetch runs in   *)
(* between (urgent tells how far this has got).  The updates queued by the *)
(* continuation of a fetch or by an effect are rendered later, and the     *)
(* effects of such a render run later: an event can be dispatched before   *)
(* that render and before those effects.  An event handler called while    *)
(* effects of the render on screen are due has these effects run before    *)
(* its updates are rendered.                                               *)
(*                                                                         *)
(* Bounds.  userActions counts the user's events; a fetch is issued while  *)
(* fewer than MaxInflight fetches are pending, and an event handler queues *)
(* an update while there is room for the fetches to issue before the next  *)
(* event.                                                                  *)
(***************************************************************************)
EXTENDS Integers, Sequences, FiniteSets

\* ------------------------------------------------------------------ bounds
MaxTotal == 7
MaxUserActions == 4
MaxInflight == 2
MaxToggleIdx == 2

\* ------------------------------------------------------- program constants
InitialRows == 10
DefaultTotal == 100
RowsPerPageOptions == {5, 10, 20}
InputMin == 1

\* ------------------------------------------------------------ input sets
Totals == {0, MaxTotal}
SelectCounts == {2, 7}
PageFirsts == {-5, 5, 10}
PageRows == {5, 10}

VARIABLES
  data,               \* useState<Artwork[]>: the ids of the records, in order
  totalRecords,       \* useState<number>
  first,              \* useState<number>: zero-based offset
  rows,               \* useState<number>: page size
  selected,           \* useState<Set<number>>
  selectCount,        \* useState<number>: the overlay's input
  remainingToSelect,  \* useState<number>
  isSelecting,        \* useState<boolean>
  shown,              \* the values of the render on screen
  touched,            \* of data and selected: those set since that render
  fetchDue,           \* the effect of lines 57-60 of that render has not run yet
  accDue,             \* the effect of lines 106-140 of that render has not run yet
  inflight,           \* fetches issued and not yet resolved, in issue order
  srvTotal,           \* the remote collection: its number of records
  srvHasTotal,        \* whether its responses carry pagination.total
  lastIssued,         \* history: the most recently issued fetch and its outcome
  awaiting,           \* history: page the selection effect advanced to, not yet fetched
  run,                \* history: the bulk-select started last, while undisturbed
  lastOp,             \* history: the step taken last
  undo,               \* history: of the last toggleSelectAll calls in a row, the
                      \* selection before the call, whether the call was made with
                      \* no update pending, and the selection and the page on screen
  quota,              \* history: what the bulk-select started last may still add
  userActions,        \* history: number of user events so far
  urgent              \* "update": an event handler's update awaits its render;
                      \* "effects": the effects of that render have not run yet

stateVars == <<data, totalRecords, first, rows, selected, selectCount,
               remainingToSelect, isSelecting>>
progVars == <<data, totalRecords, first, rows, selected, selectCount,
              remainingToSelect, isSelecting, touched, inflight>>
vars == <<data, totalRecords, first, rows, selected, selectCount,
          remainingToSelect, isSelecting, shown, touched, fetchDue, accDue, inflight,
          srvTotal, srvHasTotal, lastIssued, awaiting, run, lastOp, undo, quota,
          userActions, urgent>>

\* --------------------------------------------------------------- helpers
Min(a, b) == IF a < b THEN a ELSE b
Max(a, b) == IF a > b THEN a ELSE b
Range(s) == {s[i] : i \in 1..Len(s)}

\* Math.floor(a / b) for b > 0
FloorDiv(a, b) == a \div b
\* Math.ceil(a / b) for a >= 0, b > 0
CeilDiv(a, b) == (a + b - 1) \div b

\* x || d on an optional number: absent (<<>>) and 0 are falsy
OrDefault(opt, d) == IF opt = <<>> \/ opt[1] = 0 THEN d ELSE opt[1]

toPage(f, r) == FloorDiv(f, r) + 1
\* lines 143 and 146, of the render on screen
currentPage == toPage(shown.first, shown.rows)
totalPages == CeilDiv(shown.totalRecords, shown.rows)

\* ------------------------------------------------------ the remote source
\* The id of the i-th record of the collection.  The source's order is not
\* the order of the ids: neighbours are swapped (2, 1, 4, 3, ...).
SourceId(i) == IF i % 2 = 1 THEN (IF i < srvTotal THEN i + 1 ELSE i) ELSE i - 1
FirstIds(n) == {SourceId(i) : i \in 1..Min(n, srvTotal)}
\* json.data of the response to ?page=p&limit=l
PageItems(p, l) ==
  [j \in 1..Max(0, Min(l, srvTotal - (p - 1) * l)) |-> SourceId((p - 1) * l + j)]
\* json.pagination?.total of a response
PageTotal == IF srvHasTotal THEN <<srvTotal>> ELSE <<>>
IdsFromPage(p, l) == {SourceId(i) : i \in ((p - 1) * l + 1)..srvTotal}

NoRun == [n |-> 0, page |-> 0, empty |-> FALSE]
NoQuota == [on |-> FALSE, left |-> 0, lost |-> FALSE]

\* The state as the queued updates leave it.
Queued == [data |-> data, totalRecords |-> totalRecords, first |-> first, rows |-> rows,
           selected |-> selected, selectCount |-> selectCount,
           remainingToSelect |-> remainingToSelect, isSelecting |-> isSelecting]

\* lines 25-30, 89-90 and the mount: both effects run after the first render
Init ==
  /\ data = <<>>
  /\ totalRecords = 0
  /\ first = 0
  /\ rows = InitialRows
  /\ selected = {}
  /\ selectCount = 0
  /\ remainingToSelect = 0
  /\ isSelecting = FALSE
  /\ shown = Queued
  /\ touched = {}
  /\ fetchDue = TRUE
  /\ accDue = TRUE
  /\ inflight = <<>>
  /\ srvTotal \in Totals
  /\ srvHasTotal \in (IF srvTotal = 0 THEN {TRUE} ELSE BOOLEAN)
  /\ lastIssued = [page |-> 0, limit |-> 0, status |-> "none"]
  /\ awaiting = 0
  /\ run = NoRun
  /\ lastOp = "init"
  /\ undo = <<>>
  /\ quota = NoQuota
  /\ userActions = 0
  /\ urgent = "none"

\* ------------------------------------------------------------- rendering
\* An update is queued that the render on screen does not show.
Stale == touched # {} \/ Queued # shown

\* An event (a user event, the completion of a fetch) is dispatched: no
\* update of an event handler awaits its render, and no effect of the render
\* of such an update is due.
Event == urgent = "none"

\* The component renders: the queued updates get on screen, and the effects
\* whose dependencies (lines 60 and 140) changed are due.
Render ==
  /\ ~fetchDue /\ ~accDue
  /\ Stale
  /\ shown' = Queued
  /\ touched' = {}
  /\ fetchDue' = (first # shown.first \/ rows # shown.rows)
  /\ accDue' = \/ touched # {}
               \/ first # shown.first \/ rows # shown.rows
               \/ isSelecting # shown.isSelecting
               \/ remainingToSelect # shown.remainingToSelect
               \/ totalRecords # shown.totalRecords
  /\ urgent' = IF urgent = "update" /\ (fetchDue' \/ accDue') THEN "effects" ELSE "none"
  /\ lastOp' = "render"
  /\ UNCHANGED <<stateVars, inflight, srvTotal, srvHasTotal, lastIssued, awaiting, run,
                 undo, quota, userActions>>

\* ----------------------------------------------------------- fetchData
\* The request fetchData(page) sends: page and the rows of the render.
Request(p, l) == [page |-> p, limit |-> l]
\* The response the source gives to a request.
Response(req) == [data |-> <<PageItems(req.page, req.limit)>>, total |-> PageTotal]
\* json.data || []
OrEmpty(opt) == IF opt = <<>> THEN <<>> ELSE opt[1]
\* json.pagination?.total || 100
StoredTotal(opt) == OrDefault(opt, DefaultTotal)

RemoveAt(s, i) == SubSeq(s, 1, i - 1) \o SubSeq(s, i + 1, Len(s))
IsLatest(i) == i = Len(inflight) /\ lastIssued.status = "pending"

\* await fetch / await res.json() resolve: lines 50-51
FetchSucceed(i) ==
  /\ Event
  /\ i \in 1..Len(inflight)
  /\ LET req == inflight[i]
         json == Response(req)
     IN /\ data' = OrEmpty(json.data)
        /\ totalRecords' = StoredTotal(json.total)
        /\ awaiting' = IF req.page = awaiting /\ req.limit = rows THEN 0 ELSE awaiting
  /\ touched' = touched \cup {"data"}
  /\ inflight' = RemoveAt(inflight, i)
  /\ lastIssued' = IF IsLatest(i) THEN [lastIssued EXCEPT !.status = "ok"] ELSE lastIssued
  /\ lastOp' = IF IsLatest(i) THEN "fetchOk" ELSE "fetchStale"
  /\ undo' = <<>>
  /\ UNCHANGED <<first, rows, selected, selectCount, remainingToSelect, isSelecting,
                 shown, fetchDue, accDue, srvTotal, srvHasTotal, run, quota, userActions,
                 urgent>>

\* the catch empties the table and ends the bulk-select
CaughtAborting == [data |-> <<>>, isSelecting |-> FALSE]

\* lines 52-54: the catch logs the error and sets no state
Caught == [data |-> data, isSelecting |-> isSelecting]

\* fetch or res.json() rejects: the catch of lines 52-54
FetchFail(i) ==
  /\ Event
  /\ i \in 1..Len(inflight)
  /\ data' = Caught.data
  /\ isSelecting' = Caught.isSelecting
  /\ inflight' = RemoveAt(inflight, i)
  /\ lastIssued' = IF IsLatest(i) THEN [lastIssued EXCEPT !.status = "failed"] ELSE lastIssued
  /\ run' = NoRun
  /\ lastOp' = "fetchFail"
  /\ undo' = <<>>
  /\ UNCHANGED <<totalRecords, first, rows, selected, selectCount,
                 remainingToSelect, shown, touched, fetchDue, accDue,
                 srvTotal, srvHasTotal, awaiting, quota, userActions, urgent>>

\* ------------------------------------------------ the effect of lines 106-140
\* the active flag is not looked at
AccumulatingWhileRemaining == shown.remainingToSelect > 0

\* line 107: the effect of lines 106-140 returns at once unless this holds
Accumulating == shown.isSelecting /\ shown.remainingToSelect > 0

\* The for loop of lines 113-119 from item i on: acc = [set, count].
RECURSIVE Scan(_, _, _, _)
Scan(items, i, acc, rem) ==
  IF i > Len(items) \/ acc.count >= rem THEN acc
  ELSE IF items[i] \notin acc.set
       THEN Scan(items, i + 1, [set |-> acc.set \cup {items[i]}, count |-> acc.count + 1], rem)
       ELSE Scan(items, i + 1, acc, rem)

\* selected items count as well: the first rem items of the page are taken
SelectCountingSelected(items, sel, rem) ==
  [set |-> sel \cup {items[j] : j \in 1..Min(rem, Len(items))},
   count |-> Min(rem, Len(items))]

\* newSet and selectedInThisPage after the loop
SelectFromPage(items, sel, rem) == Scan(items, 1, [set |-> sel, count |-> 0], rem)

\* line 130
MayAdvance == currentPage < totalPages

\* ------------------------------------- one run of the effects of a render
FlushEffects ==
  /\ fetchDue \/ accDue
  /\ fetchDue => Len(inflight) < MaxInflight
  /\ LET acts == accDue /\ Accumulating
         r == SelectFromPage(shown.data, shown.selected, shown.remainingToSelect)
         more == shown.remainingToSelect > r.count /\ Len(shown.data) > 0
         advance == acts /\ more /\ MayAdvance
         stop == acts /\ (IF more THEN ~MayAdvance ELSE shown.remainingToSelect <= r.count)
     IN \* lines 57-60: fetchData(currentPage)
        /\ inflight' = IF fetchDue THEN Append(inflight, Request(currentPage, shown.rows))
                                   ELSE inflight
        /\ lastIssued' = IF fetchDue
                         THEN [page |-> currentPage, limit |-> shown.rows, status |-> "pending"]
                         ELSE lastIssued
        \* lines 106-140
        /\ selected' = IF acts THEN r.set ELSE selected
        /\ touched' = IF acts THEN touched \cup {"selected"} ELSE touched
        /\ remainingToSelect' = IF acts THEN remainingToSelect - r.count ELSE remainingToSelect
        /\ first' = IF advance THEN first + shown.rows ELSE first
        /\ isSelecting' = IF stop THEN FALSE ELSE isSelecting
        /\ awaiting' = IF advance THEN toPage(first + shown.rows, shown.rows) ELSE awaiting
        /\ lastOp' = IF advance THEN "advance" ELSE "flush"
  /\ fetchDue' = FALSE
  /\ accDue' = FALSE
  /\ undo' = IF selected' = selected THEN undo ELSE <<>>
  /\ quota' = IF quota.on
              THEN [on |-> TRUE,
                    left |-> quota.left - Cardinality(selected' \ selected),
                    lost |-> quota.lost \/ ~(selected \subseteq selected')]
              ELSE quota
  /\ urgent' = IF urgent = "effects" THEN "none" ELSE urgent
  /\ UNCHANGED <<data, totalRecords, rows, selectCount, shown, srvTotal, srvHasTotal, run,
                 userActions>>

\* ------------------------------------------------------------ user events
\* The run of the effects that are due advances the offset (lines 126-131).
Advancing ==
  /\ accDue /\ Accumulating /\ MayAdvance
  /\ Len(shown.data) > 0
  /\ shown.remainingToSelect >
       SelectFromPage(shown.data, shown.selected, shown.remainingToSelect).count

\* The effects to run before the next event, once an event handler's updates
\* are queued, issue no fetch beyond the bound: the effects that are due run
\* first, and their setFirst(prev => prev + rows) is applied to the offset
\* the handler queued; the fetch effect of the render that follows is due
\* when the offset or the page size it shows differs from the one on screen.
Room ==
  LET atRender == first' + (IF Advancing THEN shown.rows ELSE 0)
  IN Len(inflight) + (IF fetchDue THEN 1 ELSE 0)
       + (IF atRender # shown.first \/ rows' # shown.rows THEN 1 ELSE 0)
       <= MaxInflight

\* An event handler returns: the updates it queued, if any, are rendered
\* before the next event.
Return(updated) ==
  IF updated /\ Stale' THEN Room /\ urgent' = "update" ELSE urgent' = urgent

\* A handler of the render on screen is called.
User == /\ userActions < MaxUserActions
        /\ Event
        /\ userActions' = userActions + 1
        /\ UNCHANGED <<shown, fetchDue, accDue, srvTotal, srvHasTotal, lastIssued, inflight>>

\* the id is added, never deleted
ToggleAddOnly(id, sel) == sel \cup {id}

\* lines 64-69: newSet
Toggle(id, sel) == IF id \in sel THEN sel \ {id} ELSE sel \cup {id}

\* lines 63-71
toggleSelect(id) ==
  /\ User
  /\ id \in Range(shown.data)
  /\ selected' = Toggle(id, shown.selected)
  /\ touched' = touched \cup {"selected"}
  /\ run' = NoRun
  /\ lastOp' = "toggle"
  /\ undo' = <<>>
  /\ quota' = NoQuota
  /\ UNCHANGED <<data, totalRecords, first, rows, selectCount, remainingToSelect,
                 isSelecting, awaiting>>
  /\ Return(TRUE)

\* every item of the page is flipped on its own
ToggleAllEach(items, sel) == (sel \ Range(items)) \cup (Range(items) \ sel)

\* the items of the page are added, never deleted
ToggleAllAddOnly(items, sel) == sel \cup Range(items)

\* lines 75-84: newSet
ToggleAll(items, sel) ==
  LET allSelected == Len(items) > 0 /\ \A i \in 1..Len(items) : items[i] \in sel
  IN IF allSelected THEN sel \ Range(items) ELSE sel \cup Range(items)

\* lines 74-86
toggleSelectAll ==
  /\ User
  /\ selected' = ToggleAll(shown.data, shown.selected)
  /\ touched' = touched \cup {"selected"}
  /\ run' = NoRun
  /\ lastOp' = "toggleAll"
  /\ undo' = <<[before |-> selected, fresh |-> ~Stale,
                 seen |-> shown.selected, page |-> Range(shown.data)]>>
             \o (IF undo = <<>> THEN <<>> ELSE <<undo[1]>>)
  /\ quota' = NoQuota
  /\ UNCHANGED <<data, totalRecords, first, rows, selectCount, remainingToSelect,
                 isSelecting, awaiting>>
  /\ Return(TRUE)

\* lines 202-206: the Clear button is rendered while the selection is not empty
clearSelection ==
  /\ User
  /\ shown.selected # {}
  /\ selected' = {}
  /\ touched' = touched \cup {"selected"}
  /\ run' = NoRun
  /\ lastOp' = "clear"
  /\ undo' = <<>>
  /\ quota' = NoQuota
  /\ UNCHANGED <<data, totalRecords, first, rows, selectCount, remainingToSelect,
                 isSelecting, awaiting>>
  /\ Return(TRUE)

\* lines 180-185: the input hands over a number of [min, max] = [1, rows], or null
InputValues ==
  {<<>>} \cup {<<v>> : v \in {c \in SelectCounts : InputMin <= c /\ c <= shown.rows}}

\* line 183: setSelectCount(e.value || 0)
setSelectCount(v) ==
  /\ v \in InputValues
  /\ User
  /\ selectCount' = OrDefault(v, 0)
  /\ selectCount' # selectCount
  /\ run' = NoRun
  /\ lastOp' = "count"
  /\ undo' = <<>>
  /\ UNCHANGED <<data, totalRecords, first, rows, selected, remainingToSelect,
                 isSelecting, touched, awaiting, quota>>
  /\ Return(TRUE)

\* what a bulk-select starts from when nothing else is going on
Settled == /\ ~fetchDue /\ ~accDue /\ ~Stale /\ inflight = <<>>
           /\ data = PageItems(currentPage, rows)
           /\ totalRecords = StoredTotal(PageTotal)

\* only a negative count is ignored
IgnoredIfNegative(n) == n < 0

\* line 94
Ignored(n) == n <= 0

\* the new target is added to what remained
StartedOnTop(n) == [remaining |-> remainingToSelect + n, selecting |-> TRUE, count |-> 0]

\* lines 99-101
Started(n) == [remaining |-> n, selecting |-> TRUE, count |-> 0]

\* lines 93-103
handleSelectN ==
  /\ User
  /\ IF Ignored(shown.selectCount)
     THEN /\ lastOp' = "startNoop"
          /\ UNCHANGED <<remainingToSelect, isSelecting, selectCount, awaiting, quota>>
     ELSE /\ remainingToSelect' = Started(shown.selectCount).remaining
          /\ isSelecting' = Started(shown.selectCount).selecting
          /\ selectCount' = Started(shown.selectCount).count
          /\ awaiting' = 0
          /\ lastOp' = IF isSelecting THEN "restart" ELSE "start"
          /\ quota' = [on |-> TRUE, left |-> shown.selectCount, lost |-> FALSE]
  /\ run' = IF ~Ignored(shown.selectCount) /\ ~isSelecting /\ Settled
            THEN [n |-> shown.selectCount, page |-> currentPage, empty |-> selected = {}]
            ELSE NoRun
  /\ undo' = <<>>
  /\ UNCHANGED <<data, totalRecords, first, rows, selected, touched>>
  /\ Return(~Ignored(shown.selectCount))

\* the last page is refused
PageAcceptedBelowLast(newPage) == newPage >= 1 /\ newPage < totalPages

\* line 151
PageAccepted(newPage) == newPage >= 1 /\ newPage <= totalPages

\* lines 149-155
handlePageChange(eFirst, eRows) ==
  /\ User
  /\ LET newPage == toPage(eFirst, eRows)
         ok == PageAccepted(newPage)
     IN /\ first' = IF ok THEN eFirst ELSE first
        /\ rows' = IF ok THEN eRows ELSE rows
        /\ lastOp' = IF ok THEN "pageOk" ELSE "pageRejected"
        /\ awaiting' = IF ok THEN 0 ELSE awaiting
  /\ run' = NoRun
  /\ undo' = <<>>
  /\ UNCHANGED <<data, totalRecords, selected, selectCount, remainingToSelect, isSelecting,
                 touched, quota>>
  /\ Return(PageAccepted(toPage(eFirst, eRows)))

\* lines 265-268: the rows-per-page selector
setRowsPerPage(v) ==
  /\ User
  /\ v \in RowsPerPageOptions
  /\ rows' = v
  /\ first' = 0
  /\ awaiting' = 0
  /\ run' = NoRun
  /\ lastOp' = "rows"
  /\ undo' = <<>>
  /\ UNCHANGED <<data, totalRecords, selected, selectCount, remainingToSelect, isSelecting,
                 touched, quota>>
  /\ Return(TRUE)

Next ==
  \/ FlushEffects
  \/ Render
  \/ \E i \in 1..MaxInflight : FetchSucceed(i)
  \/ \E i \in 1..MaxInflight : FetchFail(i)
  \/ \E j \in 1..Min(MaxToggleIdx, Len(shown.data)) : toggleSelect(shown.data[j])
  \/ toggleSelectAll
  \/ clearSelection
  \/ \E v \in InputValues : setSelectCount(v)
  \/ handleSelectN
  \/ \E f \in PageFirsts, r \in PageRows : handlePageChange(f, r)
  \/ \E v \in RowsPerPageOptions : setRowsPerPage(v)

Spec == Init /\ [][Next]_vars

\* Every fetch completes successfully; due effects run and queued updates are
\* rendered.
NextNoFail ==
  \/ FlushEffects
  \/ Render
  \/ \E i \in 1..MaxInflight : FetchSucceed(i)
  \/ \E j \in 1..Min(MaxToggleIdx, Len(shown.data)) : toggleSelect(shown.data[j])
  \/ toggleSelectAll
  \/ clearSelection
  \/ \E v \in InputValues : setSelectCount(v)
  \/ handleSelectN
  \/ \E f \in PageFirsts, r \in PageRows : handlePageChange(f, r)
  \/ \E v \in RowsPerPageOptions : setRowsPerPage(v)

FairSpec ==
  /\ Init
  /\ [][NextNoFail]_vars
  /\ WF_vars(FlushEffects)
  /\ WF_vars(Render)
  /\ WF_vars(\E i \in 1..MaxInflight : FetchSucceed(i))

\* Nothing is due, nothing is queued and no fetch is in flight.
Quiescent == ~fetchDue /\ ~accDue /\ ~Stale /\ inflight = <<>>

\* C1: once the most recently issued fetch has succeeded, the displayed records
\* and the total are those of its response, whatever the order in which earlier
\* fetches complete: a response that arrives later for an earlier fetch does not
\* overwrite them.
C1_StaleDiscarded ==
  lastIssued.status = "ok" =>
    /\ data = PageItems(lastIssued.page, lastIssued.limit)
    /\ totalRecords = StoredTotal(PageTotal)

\* C2: after the selection effect has advanced the offset to page p+1, a run of
\* the effects changes neither the selection nor the offset nor the
\* accumulator's state until a successful response for page p+1 has arrived.
C2_OncePerArrival ==
  [][(awaiting # 0 /\ FlushEffects) =>
       /\ selected' = selected
       /\ first' = first
       /\ isSelecting' = isSelecting
       /\ remainingToSelect' = remainingToSelect]_vars

\* C3: a bulk-select of n > rows records started Idle on page 1 with an empty
\* selection, all fetches succeeding and the user doing nothing else, ends (when
\* the collection holds n records) Idle with exactly the first n records of the
\* collection selected.
C3_CrossPageCompletion ==
  (/\ run.n > rows /\ run.page = 1 /\ run.empty
   /\ srvTotal >= run.n
   /\ Quiescent)
  => (~isSelecting /\ selected = FirstIds(run.n))

\* C4: a bulk-select of more records than the collection holds from the current
\* page on, all fetches succeeding and the user doing nothing else, ends Idle
\* with every one of those records selected.
C4_SilentStop ==
  (run.n > Cardinality(IdsFromPage(run.page, rows)))
    ~> (run.n = 0 \/ (~isSelecting /\ IdsFromPage(run.page, rows) \subseteq selected))

\* C5: from every state with an active bulk-select the accumulator eventually
\* is Idle, when every fetch completes, due effects run and queued updates are
\* rendered; also on an empty displayed page.
C5_ReturnsToIdle == (isSelecting /\ remainingToSelect > 0) ~> ~isSelecting

\* C6: every run of the selection effect on a page while Accumulating either
\* makes remaining strictly smaller or leaves the accumulator Idle, also when
\* every item of the page is selected already.
C6_Progress ==
  [][(FlushEffects /\ accDue /\ Accumulating /\ Len(shown.data) > 0) =>
       (remainingToSelect' < remainingToSelect \/ ~isSelecting')]_vars

\* C7: remaining is never negative, and it is strictly positive whenever the
\* accumulator is active.
C7_RemainingPositive ==
  /\ remainingToSelect >= 0
  /\ isSelecting => remainingToSelect > 0

\* C8: a page-change request (f, r) is accepted iff 1 <= floor(f / r) + 1 <=
\* ceil(totalRecords / rows), totalRecords being the last fetched total and rows
\* the current page size, both as the paginator the request comes from shows
\* them; a rejected request changes no state variable and issues no fetch.
C8_PageChange ==
  [][\A f \in PageFirsts, r \in PageRows :
       handlePageChange(f, r) =>
         IF /\ 1 <= (f \div r) + 1
            /\ ((f \div r) + 1) * shown.rows < shown.totalRecords + shown.rows
         THEN first' = f /\ rows' = r
         ELSE UNCHANGED progVars]_vars

\* a request for a page beyond the last one, or before the first one, has been
\* rejected while records of a non-empty collection are displayed
C8_Witness ==
  /\ lastOp = "pageRejected"
  /\ shown.totalRecords > 0 /\ totalRecords = shown.totalRecords
  /\ shown.data # <<>>

\* C9: a start with a positive count m while Accumulating(r) leaves the
\* accumulator Accumulating(m), whatever r was, and the selection as it was.
C9_Supersede ==
  [][(handleSelectN /\ shown.selectCount > 0) =>
       /\ isSelecting'
       /\ remainingToSelect' = shown.selectCount
       /\ selected' = selected]_vars

\* a start has superseded an active accumulator whose remaining was another
\* number
C9_Witness ==
  /\ lastOp = "restart" /\ isSelecting
  /\ remainingToSelect > 0
  /\ shown.isSelecting /\ shown.remainingToSelect # remainingToSelect

\* C10: a start with a count <= 0 changes nothing: accumulator state, remaining,
\* selection, offset and page size stay, and no fetch is issued.
C10_NoopStart ==
  [][(handleSelectN /\ shown.selectCount <= 0) => UNCHANGED progVars]_vars

\* a start with count 0 has been ignored while the accumulator was active
C10_Witness == lastOp = "startNoop" /\ isSelecting /\ shown.selectCount = 0

\* C11: a failed fetch leaves the displayed records, the total, the offset, the
\* page size, the selection, the remaining counter and the active flag of the
\* bulk-select as they were; a bulk-select in progress goes on.
C11_FailedFetchNoChange ==
  [][(\E i \in 1..MaxInflight : FetchFail(i)) =>
       UNCHANGED <<data, totalRecords, first, rows, selected,
                   remainingToSelect, isSelecting>>]_vars

\* a fetch has failed while a bulk-select was in progress
C11_Witness == lastOp = "fetchFail" /\ isSelecting /\ remainingToSelect > 0

\* C12 as stated: two toggleSelectAll calls in a row on the same page return
\* the selection to what it was before the first call, for every prior
\* selection.
C12_Involution == Len(undo) = 2 => selected = undo[2].before

\* C12: two toggleSelectAll calls in a row on the same page, each made with no
\* update pending, return the selection to what it was before the first call
\* when it held none or all of the page's items; when it held only some of
\* them, the result is the prior selection without the page's items.
C12_InvolutionNoneOrAll ==
  (Len(undo) = 2 /\ undo[1].fresh /\ undo[2].fresh) =>
    LET page == Range(data)
        prior == undo[2].before
    IN IF page \cap prior = {} \/ page \subseteq prior
       THEN selected = prior
       ELSE selected = prior \ page

\* two calls have returned a selection of the whole page to itself
C12_Witness ==
  /\ Len(undo) = 2 /\ undo[1].fresh /\ undo[2].fresh
  /\ Range(data) # {}
  /\ Range(data) \subseteq undo[2].before
  /\ selected = undo[2].before

\* C13: after one toggleSelectAll call the page on screen is not mixed: if
\* every item of the page was shown selected before, none is selected after;
\* otherwise every item is selected after; the membership of ids not on the
\* page is as it was shown before.
C13_NeverMixed ==
  Len(undo) >= 1 =>
    LET page == undo[1].page
        before == undo[1].seen
    IN /\ IF page \subseteq before
          THEN page \cap selected = {}
          ELSE page \subseteq selected
       /\ selected \ page = before \ page

\* a page of which some items, not all, were selected has been selected whole
C13_Witness ==
  /\ lastOp = "toggleAll" /\ Len(undo) >= 1
  /\ undo[1].page \cap undo[1].seen # {}
  /\ ~(undo[1].page \subseteq undo[1].seen)
  /\ undo[1].page \subseteq selected

\* C14: after a successful fetch whose response carries pagination.total = T,
\* T >= 0, the stored total is T; when the response carries no total, the
\* stored total is 100; totalPages, once rendered, is ceil(total / pageSize).
C14_TotalAsReported ==
  /\ lastOp \in {"fetchOk", "fetchStale"} =>
       totalRecords = IF PageTotal = <<>> THEN DefaultTotal ELSE PageTotal[1]
  /\ lastOp = "render" => totalPages = CeilDiv(totalRecords, rows)

C16_FirstUnselected ==
  [][(FlushEffects /\ accDue /\ Accumulating) =>
       LET free == SelectSeq(shown.data, LAMBDA x : x \notin shown.selected)
           k == Min(shown.remainingToSelect, Len(free))
       IN /\ selected' = shown.selected \cup {free[j] : j \in 1..k}
          /\ Cardinality(selected' \ shown.selected) = k
          /\ remainingToSelect' = remainingToSelect - k]_vars

\* a bulk-select of 2 has skipped the first item of the page, which was
\* selected, and added the two items after it
C16_Witness ==
  /\ lastOp = "flush"
  /\ shown.isSelecting /\ shown.remainingToSelect = 2
  /\ Len(shown.data) >= 3
  /\ shown.selected = {shown.data[1]}
  /\ selected = {shown.data[1], shown.data[2], shown.data[3]}
  /\ remainingToSelect = 0

\* C17: the bulk-select advances the offset only from a page below totalPages,
\* and the page it advances to is never above totalPages.
C17_AdvanceWithinPages ==
  [][(FlushEffects /\ first' # first) =>
       /\ toPage(first, rows) < CeilDiv(totalRecords, rows)
       /\ toPage(first', rows) <= CeilDiv(totalRecords, rows)]_vars

\* C18: from a start with count n until the next start or the next toggle,
\* toggle-all or clear, the bulk-select removes no id from the selection and
\* adds at most n ids over all the pages it processes.
C18_AtMostN == quota.on => (quota.left >= 0 /\ ~quota.lost)

\* C19: once a fetch has succeeded, 1 <= currentPage <= totalPages holds in
\* every state, under the page size in force: also after an accepted page
\* change that changes the page size, and after a change of the rows selector.
C19_PageInRange ==
  totalRecords # 0 =>
    (1 <= toPage(first, rows) /\ toPage(first, rows) <= CeilDiv(totalRecords, rows))

\* C20: while no bulk-select is active, a run of the effects for a page arrival
\* or for another change of data, first or rows changes neither the selection
\* nor the offset nor the remaining counter, and the arrival itself changes
\* none of them.
C20_IdleNoProcessing ==
  [][(~isSelecting /\ (FlushEffects \/ \E i \in 1..MaxInflight : FetchSucceed(i))) =>
       UNCHANGED <<selected, first, remainingToSelect, isSelecting>>]_vars

\* the effects have run for an arrived page that holds unselected items while
\* the bulk-select was over with a positive remaining counter
C20_Witness ==
  /\ lastOp = "flush"
  /\ ~isSelecting /\ ~shown.isSelecting
  /\ remainingToSelect > 0
  /\ lastIssued.status = "ok"
  /\ ~(Range(data) \subseteq selected)
====
